---- MODULE Spec2Model ----
(***************************************************************************)
(* Model of Projet3/project_code/Quantum_chemistry.py: the Jordan-Wigner    *)
(* annihilation operators, the assembly of the qubit Hamiltonian from the  *)
(* one-body and two-body integral tensors, the variational minimisation    *)
(* and the exact diagonalisation, driven file by file by                   *)
(* calculate_hamiltonian_energy.                                           *)
(*                                                                         *)
(* A SparsePauliOp is a sequence of terms [z, x, c]: z and x are the sets  *)
(* of qubits whose Z- and X-flag is set (both set: Y), c the complex       *)
(* coefficient.  A complex number is a pair <<re, im>> of integers counted *)
(* in units of 1/Unit; every coefficient the program computes from integer *)
(* tensor entries is a multiple of 1/Unit, so the arithmetic is exact.     *)
(***************************************************************************)
EXTENDS Integers, Sequences, FiniteSets, TLC

\* ------------------------------------------------------------------ bounds
MaxOrbitals == 2
MaxFiles == 2
MaxEvals == 2

\* main.py line 54: the orbital count main() passes
h2_orbitals == 4

\* --------------------------------------------------------- complex numbers
\* 0.5 (line 190) times four factors 0.5 (line 156): denominators up to 2^5.
Unit == 2 * 2 * 2 * 2 * 2

Re(c) == c[1]
Im(c) == c[2]
CZero == <<0, 0>>
COne == <<Unit, 0>>
\* the literals 0.5 and 0.5j of line 156, 0.5 of line 190
CHalf == <<Unit \div 2, 0>>
CHalfJ == <<0, Unit \div 2>>
CInt(t) == <<t * Unit, 0>>

CAdd(a, b) == <<a[1] + b[1], a[2] + b[2]>>
CMul(a, b) == <<(a[1] * b[1] - a[2] * b[2]) \div Unit,
                (a[1] * b[2] + a[2] * b[1]) \div Unit>>
CConj(a) == <<a[1], -a[2]>>
\* c * i^k
CMulIPow(c, k) ==
    CASE k % 4 = 0 -> c
      [] k % 4 = 1 -> <<-c[2], c[1]>>
      [] k % 4 = 2 -> <<-c[1], -c[2]>>
      [] OTHER     -> <<c[2], -c[1]>>

\* sum of f[lo..hi] by halving (keeps the evaluation shallow)
RECURSIVE CSum(_, _, _)
CSum(f, lo, hi) ==
    IF lo > hi THEN CZero
    ELSE IF lo = hi THEN f[lo]
    ELSE LET mid == (lo + hi) \div 2
         IN CAdd(CSum(f, lo, mid), CSum(f, mid + 1, hi))

\* ------------------------------------------------------------ numpy helpers
\* tri with the diagonal offset dropped
tri_without_offset(N, M, k) ==
    [r \in 0..(N - 1) |-> [c \in 0..(M - 1) |-> IF c <= r THEN 1 ELSE 0]]
\* np.tri(N, M, k): ones at and below the k-th diagonal
tri(N, M, k) == [r \in 0..(N - 1) |-> [c \in 0..(M - 1) |-> IF c <= r + k THEN 1 ELSE 0]]
\* np.eye(N, M, k): ones on the k-th diagonal
eye(N, M, k) == [r \in 0..(N - 1) |-> [c \in 0..(M - 1) |-> IF c = r + k THEN 1 ELSE 0]]
\* a 0/1 row as the set of qubits whose flag is set
Flags(row) == {q \in DOMAIN row : row[q] = 1}

\* ------------------------------------------------- SparsePauliOp (qiskit)
Term(zs, xs, c) == [z |-> zs, x |-> xs, c |-> c]
Pattern(t) == <<t.z, t.x>>
CountY(t) == Cardinality(t.z \cap t.x)
SymDiff(a, b) == (a \ b) \cup (b \ a)

\* SparsePauliOp(PauliList.from_symplectic(zs, xs), coeffs)
from_symplectic(zs, xs, coeffs) ==
    [k \in 1..Len(zs) |-> Term(Flags(zs[k]), Flags(xs[k]), coeffs[k])]

\* the product with the sign of exchanging X and Z left out
PauliProduct_without_sign(left, right) ==
    LET zs == SymDiff(left.z, right.z)
        xs == SymDiff(left.x, right.x)
        k == Cardinality(zs \cap xs) + 3 * (CountY(left) + CountY(right))
    IN Term(zs, xs, CMulIPow(CMul(left.c, right.c), k))

\* the product of two Pauli strings, left * right, as one term:
\* P(z,x) = (-i)^|z&x| Z^z X^x, so the product picks up i^(y3 - y1 - y2 + 2|x1&z2|)
PauliProduct(left, right) ==
    LET zs == SymDiff(left.z, right.z)
        xs == SymDiff(left.x, right.x)
        k == Cardinality(zs \cap xs) + 3 * (CountY(left) + CountY(right))
             + 2 * Cardinality(left.x \cap right.z)
    IN Term(zs, xs, CMulIPow(CMul(left.c, right.c), k))

\* A.compose(B): the operator B * A (A applied first), terms in the order of
\* np.multiply.outer(A.coeffs, B.coeffs).ravel()
compose(A, B) ==
    [k \in 1..(Len(A) * Len(B)) |->
        PauliProduct(B[((k - 1) % Len(B)) + 1], A[((k - 1) \div Len(B)) + 1])]

\* A.adjoint(): Pauli strings are self-adjoint, the coefficients are conjugated
adjoint(A) == [k \in 1..Len(A) |-> Term(A[k].z, A[k].x, CConj(A[k].c))]

\* A + B: the terms of A followed by those of B; the int 0 is the empty sum
Add(A, B) == A \o B

\* scalar * A; qiskit returns one identity term with coefficient 0 for scalar 0
Multiply(s, A) ==
    IF s = CZero THEN <<Term({}, {}, CZero)>>
    ELSE [k \in 1..Len(A) |-> Term(A[k].z, A[k].x, CMul(s, A[k].c))]

\* the coefficient a sum of terms gives to one pattern
CoeffOf(A, p) == CSum([k \in 1..Len(A) |-> IF Pattern(A[k]) = p THEN A[k].c ELSE CZero], 1, Len(A))

\* simplify that drops zero coefficients and merges nothing
simplify_without_merge(A) ==
    LET nz == SelectSeq(A, LAMBDA t : t.c # CZero)
    IN IF nz = <<>> THEN <<Term({}, {}, CZero)>> ELSE nz

\* A.simplify(): drop zero coefficients, merge equal patterns in order of first
\* appearance, drop merged zeros; an empty result is one identity term with 0
simplify(A) ==
    LET nz == SelectSeq(A, LAMBDA t : t.c # CZero)
        first == {k \in 1..Len(nz) : \A m \in 1..(k - 1) : Pattern(nz[m]) # Pattern(nz[k])}
        keep == {k \in first : CoeffOf(nz, Pattern(nz[k])) # CZero}
        idx == SelectSeq([k \in 1..Len(nz) |-> k], LAMBDA k : k \in keep)
    IN IF keep = {} THEN <<Term({}, {}, CZero)>>
       ELSE [r \in 1..Len(idx) |-> Term(nz[idx[r]].z, nz[idx[r]].x, CoeffOf(nz, Pattern(nz[idx[r]])))]

\* ------------------------------------------------------- Jordan-Wigner
annihilation_operators_with_jordan_wigner(num_states) ==
    LET z1_bits == tri(num_states, num_states, -1)
        z2_bits == tri(num_states, num_states, 0)
        x_bits == eye(num_states, num_states, 0)
    IN [r \in 1..num_states |->
           from_symplectic(<<z1_bits[r - 1], z2_bits[r - 1]>>,
                           <<x_bits[r - 1], x_bits[r - 1]>>,
                           <<CHalf, CHalfJ>>)]

\* ------------------------------------------------ integral files (Utils)
\* the two values a tensor entry of an input file takes besides 0
NonZero == {-1, 1}
Orbitals(num) == 0..(num - 1)

\* a file lists the non-zero entries of its tensors; entries naming the same
\* position add up
EntrySum(S) ==
    LET RECURSIVE Sum(_)
        Sum(T) == IF T = {} THEN 0
                  ELSE LET e == CHOOSE e \in T : TRUE
                       IN e[Len(e)] + Sum(T \ {e})
    IN Sum(S)

\* Utils.extract_data(file): distance, dense one_body[i][j], dense
\* two_body[i][j][k][l], repulsion_energy
extract_data(file, num) ==
    [distance |-> file.distance,
     one_body |-> [i \in Orbitals(num) |-> [j \in Orbitals(num) |->
                     EntrySum({e \in file.one_body : e[1] = i /\ e[2] = j})]],
     two_body |-> [i \in Orbitals(num) |-> [j \in Orbitals(num) |->
                  [k \in Orbitals(num) |-> [l \in Orbitals(num) |->
                     EntrySum({e \in file.two_body :
                                  e[1] = i /\ e[2] = j /\ e[3] = k /\ e[4] = l})]]]],
     repulsion_energy |-> file.repulsion_energy]

File(d, ob, tb, r) == [distance |-> d, one_body |-> ob, two_body |-> tb, repulsion_energy |-> r]

\* the two files of a dissociation curve used for the runs over several files
CurveFiles(num) ==
    {File(1, {<<0, 0, -1>>}, {}, 1),
     File(2, {<<0, num - 1, 1>>}, {<<0, num - 1, num - 1, 0, 1>>}, 0)}

\* one-body tensors with one or two entries, and the all-ones tensor
OneBodyInputs(num) ==
    {{<<i, j, v>>} : i \in Orbitals(num), j \in Orbitals(num), v \in NonZero}
    \cup UNION {{{<<e[1], e[2], v>>, <<e[3], e[4], w>>} : v \in NonZero, w \in NonZero} :
                   e \in Orbitals(num) \X Orbitals(num) \X Orbitals(num) \X Orbitals(num)}
    \cup {{<<i, j, 1>> : i \in Orbitals(num), j \in Orbitals(num)}}

\* every symmetric one-body tensor with entries in {-1, 0, 1}
SymmetricInputs(num) ==
    LET upper == {e \in Orbitals(num) \X Orbitals(num) : e[1] <= e[2]}
    IN {UNION {{<<e[1], e[2], f[e]>>, <<e[2], e[1], f[e]>>} : e \in {u \in upper : f[u] # 0}} :
           f \in [upper -> {-1, 0, 1}]}

\* two-body tensors with one entry, and the all-ones tensor
TwoBodyInputs(num) ==
    {{<<e[1], e[2], e[3], e[4], v>>} :
        e \in Orbitals(num) \X Orbitals(num) \X Orbitals(num) \X Orbitals(num), v \in NonZero}
    \cup {{<<e[1], e[2], e[3], e[4], 1>> :
              e \in Orbitals(num) \X Orbitals(num) \X Orbitals(num) \X Orbitals(num)}}

\* the single files: a one-body tensor alone, or a two-body tensor next to a
\* fixed one-body tensor
SingleFiles(num) ==
    {File(4, ob, {}, 0) : ob \in OneBodyInputs(num) \cup SymmetricInputs(num)}
    \cup {File(5, {<<0, 0, -1>>, <<num - 1, 0, 1>>}, tb, 0) : tb \in TwoBodyInputs(num)}

RECURSIVE SeqsUpTo(_, _)
SeqsUpTo(S, len) ==
    IF len = 0 THEN {<<>>}
    ELSE LET shorter == SeqsUpTo(S, len - 1)
         IN shorter \cup {Append(s, f) : s \in shorter, f \in S}

CurveLists(num) == SeqsUpTo(CurveFiles(num), MaxFiles) \ {<<>>}
FileLists(num) == CurveLists(num) \cup {<<f>> : f \in SingleFiles(num)}

\* ------------------------------------------------------------------ state
VARIABLES
    entry,               \* the function the caller entered
    num_orbitals,        \* the number of orbitals of the run
    data_file_Paths,     \* the input files
    state_circuit,       \* line 60, or the circuit the caller passed
    annihilators,        \* line 62, or the operators the caller passed
    creators,            \* line 99
    pc,                  \* the statement the driver is at
    index,               \* line 100 (0-based)
    data,                \* line 103: distance, one_body, two_body, repulsion_energy
    i, j, k, l,          \* lines 181-186 (0-based)
    one_body_sum,        \* line 178
    two_body_sum,        \* line 179
    a_ij,                \* line 184
    a_kl,                \* line 187
    hamiltonian,         \* line 104
    params,              \* the parameter vector the minimizer evaluates
    evals,               \* cost evaluations made in the current minimization
    cost,                \* the value cost_function returned last
    best,                \* the best evaluation so far: [x, fun]
    raised,              \* the estimation capability raised in this run
    error,               \* the exception calculate_hamiltonian_energy ended with
    distances, repulsions, optimized_results, minimal_exact_eigenvalues,
    n_cc,                \* creator-creator products computed in the current build
    n_aa,                \* annihilator-annihilator products computed in it
    steps,               \* the steps completed for the current file, in order
    in_flight            \* estimation round trips begun and not yet ended

vars == <<entry, num_orbitals, data_file_Paths, state_circuit, annihilators, creators, pc,
          index, data,
          i, j, k, l, one_body_sum, two_body_sum, a_ij, a_kl, hamiltonian,
          params, evals, cost, best, raised, error,
          distances, repulsions, optimized_results, minimal_exact_eigenvalues,
          n_cc, n_aa, steps, in_flight>>

\* np.empty: an entry nothing has been stored in
Empty == <<>>
\* array[index] = value
Stored(v) == <<v>>
\* a local no statement has assigned
Unset == <<>>
\* a sum that keeps what the previous call left in it
StaleSum == one_body_sum
\* lines 178-179, the int 0 a sum starts from: 0 + op is op
InitialSum == <<>>
\* line 106: starting_params
starting_params == <<0>>

\* lines 124-131: the gates of the ansatz, with the line that adds each
AnsatzGates ==
    <<[gate |-> "ry", qubits |-> {1}, line |-> 126],
      [gate |-> "x", qubits |-> {1}, line |-> 127],
      [gate |-> "cx", qubits |-> {1, 0}, line |-> 128],
      [gate |-> "x", qubits |-> {1}, line |-> 129],
      [gate |-> "cx", qubits |-> {0, 2}, line |-> 130],
      [gate |-> "cx", qubits |-> {1, 3}, line |-> 131]>>

\* lines 115-135: QuantumCircuit(num_qubits) and its gates; the first gate that
\* names a qubit the circuit does not have raises CircuitError
create_initial_quantum_circuit(num_qubits) ==
    LET bad == {g \in 1..Len(AnsatzGates) :
                   \E q \in AnsatzGates[g].qubits : q >= num_qubits}
    IN IF bad # {}
       THEN [raised |-> TRUE, kind |-> "CircuitError",
             line |-> AnsatzGates[CHOOSE g \in bad : \A o \in bad : g <= o].line]
       ELSE [raised |-> FALSE,
             circuit |-> [num_qubits |-> num_qubits, gates |-> AnsatzGates, bound |-> <<>>]]

\* the one-parameter circuit a caller of calculate_hamiltonian_energy passes
CallerCircuit(num_qubits) ==
    [num_qubits |-> num_qubits,
     gates |-> <<[gate |-> "ry", qubits |-> {0}, line |-> 0]>>,
     bound |-> <<>>]

\* ansatz.bind_parameters(params), line 221
bind_parameters(circuit, theta) == [circuit EXCEPT !.bound = theta]

\* the call: get_dissociation_curve_parameters(data_file_Paths, num_orbitals, ...)
\* (line 40), or calculate_hamiltonian_energy(data_file_Paths, annihilators,
\* state_circuit, ...) (line 79) with the Jordan-Wigner operators
Init ==
    /\ \/ /\ entry = "get_dissociation_curve_parameters"
          /\ num_orbitals \in (1..MaxOrbitals) \cup {h2_orbitals}
          /\ data_file_Paths \in CurveLists(num_orbitals)
          /\ state_circuit = Unset
          /\ annihilators = Unset
          /\ pc = "create_circuit"
       \/ /\ entry = "calculate_hamiltonian_energy"
          /\ num_orbitals \in 1..MaxOrbitals
          /\ data_file_Paths \in FileLists(num_orbitals)
          /\ state_circuit = CallerCircuit(num_orbitals)
          /\ annihilators = annihilation_operators_with_jordan_wigner(num_orbitals)
          /\ pc = "enter"
    /\ creators = Unset
    /\ index = 0
    /\ data = Unset
    /\ i = 0 /\ j = 0 /\ k = 0 /\ l = 0
    /\ one_body_sum = Unset /\ two_body_sum = Unset
    /\ a_ij = Unset /\ a_kl = Unset
    /\ hamiltonian = Unset
    /\ params = Unset /\ evals = 0 /\ cost = Unset /\ best = Unset
    /\ raised = FALSE /\ error = "none"
    /\ distances = Unset
    /\ repulsions = Unset
    /\ optimized_results = Unset
    /\ minimal_exact_eigenvalues = Unset
    /\ n_cc = 0 /\ n_aa = 0
    /\ steps = <<>>
    /\ in_flight = 0

\* the factor 0.5 applied to both sums
qubit_hamiltonian_halving_both(obs, tbs) == Multiply(CHalf, Add(obs, tbs))

\* line 190: one_body_sum + 0.5*two_body_sum
qubit_hamiltonian(obs, tbs) == Add(obs, Multiply(CHalf, tbs))

\* ------------------------------------------- estimation (Pauli_operations)
\* the parameter values the minimizer tries
ParamValues == {0, 1}

\* po.estimate_expectation_values(paulis, ansatz.bind_parameters(params), ...):
\* one real estimate per Pauli string, or an ExecutionError.  The capability is
\* external; two response tables stand for it.  Parameter 0 answers as the
\* state |0...0> does (1 on strings of I and Z, 0 elsewhere), parameter 1 as
\* the product state with qubit 0 along Y and the others along X does.
EstimateOf(t, circuit) ==
    IF circuit.bound[1] = 0
    THEN (IF t.x = {} THEN 1 ELSE 0)
    ELSE (IF /\ t.z \subseteq {0}
             /\ (0 \in t.x <=> 0 \in t.z)
          THEN 1 ELSE 0)

estimate_expectation_values(paulis, circuit, fails) ==
    IF fails THEN [raised |-> TRUE, kind |-> "ExecutionError"]
    ELSE [raised |-> FALSE,
          values |-> [m \in 1..Len(paulis) |-> EstimateOf(paulis[m], circuit)]]

\* a cost function that answers 0 when the estimation raises
cost_function_with_default(observable, estimate) ==
    IF estimate.raised THEN [raised |-> FALSE, value |-> CZero]
    ELSE [raised |-> FALSE,
          value |-> CSum([m \in 1..Len(observable) |->
                            CMul(observable[m].c, CInt(estimate.values[m]))],
                         1, Len(observable))]

\* lines 220-223: np.dot(observable.coeffs, estimated_values); an exception of
\* the estimation leaves the function as it is
cost_function(observable, estimate) ==
    IF estimate.raised THEN estimate
    ELSE [raised |-> FALSE,
          value |-> CSum([m \in 1..Len(observable) |->
                            CMul(observable[m].c, CInt(estimate.values[m]))],
                         1, Len(observable))]

\* ------------------------------------------------------- exact solution
RECURSIVE Pow2(_)
Pow2(m) == IF m = 0 THEN 1 ELSE 2 * Pow2(m - 1)
Bit(r, q) == (r \div Pow2(q)) % 2
\* the basis state reached from column c by the X-flags of t
Flip(c, t, num) ==
    LET RECURSIVE F(_)
        F(q) == IF q = num THEN 0
                ELSE Pow2(q) * (IF q \in t.x THEN 1 - Bit(c, q) ELSE Bit(c, q)) + F(q + 1)
    IN F(0)

\* observable.to_matrix(): entry [r][c] of the sum of coefficient * Pauli matrix,
\* qubit q being bit q of the basis index
to_matrix(observable, num) ==
    [r \in 0..(Pow2(num) - 1) |-> [c \in 0..(Pow2(num) - 1) |->
        CSum([m \in 1..Len(observable) |->
                LET t == observable[m]
                IN IF Flip(c, t, num) # r THEN CZero
                   ELSE CMulIPow(t.c, 3 * CountY(t)
                                      + 2 * Cardinality({q \in t.z : Bit(r, q) = 1}))],
             1, Len(observable))]]

MinOf(S) == CHOOSE m \in S : \A o \in S : m <= o
MaxOf(S) == CHOOSE m \in S : \A o \in S : m >= o

\* the largest eigenvalue in place of the smallest
exact_maximal_eigenvalue(observable, num) ==
    LET M == to_matrix(observable, num)
    IN [min |-> MaxOf({Re(M[r][r]) : r \in 0..(Pow2(num) - 1)})]

\* lines 236-238: np.linalg.eigh reads the lower triangle and the real part of
\* the diagonal.  With nothing below the diagonal the eigenvalues are the
\* diagonal entries; otherwise the minimum is not rational in general and is
\* kept as the triangle that determines it.
exact_minimal_eigenvalue(observable, num) ==
    LET M == to_matrix(observable, num)
        rows == 0..(Pow2(num) - 1)
        below == {rc \in rows \X rows : rc[1] > rc[2] /\ M[rc[1]][rc[2]] # CZero}
    IN IF below = {}
       THEN [min |-> MinOf({Re(M[r][r]) : r \in rows})]
       ELSE [eigh |-> [rc \in {rc \in rows \X rows : rc[1] >= rc[2]} |->
                          IF rc[1] = rc[2] THEN <<Re(M[rc[1]][rc[2]]), 0>>
                          ELSE M[rc[1]][rc[2]]]]

\* the += of lines 183 and 188 over the terms lo..hi, in program order
RECURSIVE Accumulate(_, _, _)
Accumulate(terms, lo, hi) ==
    IF lo > hi THEN <<>>
    ELSE IF lo = hi THEN terms[lo]
    ELSE LET mid == (lo + hi) \div 2
         IN Add(Accumulate(terms, lo, mid), Accumulate(terms, mid + 1, hi))

\* lines 160-193 as a function of its arguments: the loops in program order
build_qubit_hamiltonian(one_body, two_body, annihilation_operators, creation_operators) ==
    LET num == Len(annihilation_operators)
        OneBody ==
            [q \in 0..(num * num - 1) |->
                Multiply(CInt(one_body[q \div num][q % num]),
                         compose(creation_operators[(q \div num) + 1],
                                 annihilation_operators[(q % num) + 1]))]
        TwoBody ==
            [q \in 0..(num * num * num * num - 1) |->
                LET ii == q \div (num * num * num)
                    jj == (q \div (num * num)) % num
                    kk == (q \div num) % num
                    ll == q % num
                IN Multiply(CInt(two_body[ii][jj][kk][ll]),
                            compose(compose(creation_operators[ii + 1],
                                            creation_operators[jj + 1]),
                                    compose(annihilation_operators[kk + 1],
                                            annihilation_operators[ll + 1])))]
    IN simplify(Add(Accumulate(OneBody, 0, num * num - 1),
                    Multiply(CHalf, Accumulate(TwoBody, 0, num * num * num * num - 1))))

\* --------------------------------------------------------------- the driver
\* the exact solution placed before the minimization
StepAfter_exact_first(step) ==
    CASE step = "build" -> "exact"
      [] step = "exact" -> "minimize"
      [] step = "minimize" -> "loop"

\* lines 104-111: the statement that follows each step of one file
StepAfter(step) ==
    CASE step = "build" -> "minimize"
      [] step = "minimize" -> "exact"
      [] step = "exact" -> "loop"

Advance(step) ==
    /\ pc' = StepAfter(step)
    /\ steps' = Append(steps, step)
    /\ index' = IF StepAfter(step) = "loop" THEN index + 1 ELSE index

build_vars == <<i, j, k, l, one_body_sum, two_body_sum, a_ij, a_kl, n_cc, n_aa>>
min_vars == <<params, evals, cost, best>>
out_vars == <<distances, repulsions, optimized_results, minimal_exact_eigenvalues>>
run_vars == <<entry, num_orbitals, data_file_Paths, state_circuit, annihilators, creators>>
loop_vars == <<index, data, build_vars, hamiltonian, min_vars, raised, steps, in_flight>>

\* line 60: create_initial_quantum_circuit(num_orbitals); its CircuitError
\* leaves get_dissociation_curve_parameters
CreateCircuit ==
    /\ pc = "create_circuit"
    /\ LET made == create_initial_quantum_circuit(num_orbitals)
       IN IF made.raised
          THEN pc' = "failed" /\ error' = made.kind /\ UNCHANGED state_circuit
          ELSE pc' = "jordan_wigner" /\ state_circuit' = made.circuit /\ UNCHANGED error
    /\ UNCHANGED <<entry, num_orbitals, data_file_Paths, annihilators, creators, loop_vars,
                   out_vars>>

\* line 62
JordanWigner ==
    /\ pc = "jordan_wigner"
    /\ annihilators' = annihilation_operators_with_jordan_wigner(num_orbitals)
    /\ pc' = "enter"
    /\ UNCHANGED <<entry, num_orbitals, data_file_Paths, state_circuit, creators, loop_vars,
                   error, out_vars>>

\* lines 64 and 95-99: calculate_hamiltonian_energy is entered
Enter ==
    /\ pc = "enter"
    /\ distances' = [m \in 1..Len(data_file_Paths) |-> Empty]
    /\ repulsions' = [m \in 1..Len(data_file_Paths) |-> Empty]
    /\ optimized_results' = [m \in 1..Len(data_file_Paths) |-> Empty]
    /\ minimal_exact_eigenvalues' = [m \in 1..Len(data_file_Paths) |-> Empty]
    /\ creators' = [r \in 1..Len(annihilators) |-> adjoint(annihilators[r])]
    /\ pc' = "loop"
    /\ UNCHANGED <<entry, num_orbitals, data_file_Paths, state_circuit, annihilators,
                   loop_vars, error>>

\* lines 100-104 and 177-179: the next file is read and build_qubit_hamiltonian
\* is entered
ProcessFile ==
    /\ pc = "loop"
    /\ index < Len(data_file_Paths)
    /\ data' = extract_data(data_file_Paths[index + 1], num_orbitals)
    /\ one_body_sum' = InitialSum
    /\ two_body_sum' = InitialSum
    /\ i' = 0 /\ j' = 0 /\ k' = 0 /\ l' = 0
    /\ a_ij' = Unset /\ a_kl' = Unset
    /\ n_cc' = 0 /\ n_aa' = 0
    /\ pc' = "build_ij"
    /\ steps' = <<>>
    /\ UNCHANGED <<run_vars, index, hamiltonian, min_vars, raised, error, out_vars, in_flight>>

\* lines 183-184, for one (i, j)
BuildOuter ==
    /\ pc = "build_ij"
    /\ one_body_sum' = Add(one_body_sum,
                           Multiply(CInt(data.one_body[i][j]),
                                    compose(creators[i + 1], annihilators[j + 1])))
    /\ a_ij' = compose(creators[i + 1], creators[j + 1])
    /\ n_cc' = n_cc + 1
    /\ k' = 0 /\ l' = 0
    /\ pc' = "build_kl"
    /\ UNCHANGED <<run_vars, index, data, i, j, two_body_sum, a_kl, n_aa, hamiltonian,
                   min_vars, raised, error, out_vars, steps, in_flight>>

\* lines 187-188, for one (k, l), and the loop headers that follow
BuildInner ==
    /\ pc = "build_kl"
    /\ LET akl == compose(annihilators[k + 1], annihilators[l + 1])
       IN /\ a_kl' = akl
          /\ two_body_sum' = Add(two_body_sum,
                                 Multiply(CInt(data.two_body[i][j][k][l]), compose(a_ij, akl)))
    /\ n_aa' = n_aa + 1
    /\ IF l < num_orbitals - 1
       THEN l' = l + 1 /\ UNCHANGED <<i, j, k, pc>>
       ELSE IF k < num_orbitals - 1
       THEN k' = k + 1 /\ l' = 0 /\ UNCHANGED <<i, j, pc>>
       ELSE IF j < num_orbitals - 1
       THEN j' = j + 1 /\ pc' = "build_ij" /\ UNCHANGED <<i, k, l>>
       ELSE IF i < num_orbitals - 1
       THEN i' = i + 1 /\ j' = 0 /\ pc' = "build_ij" /\ UNCHANGED <<k, l>>
       ELSE pc' = "build_end" /\ UNCHANGED <<i, j, k, l>>
    /\ UNCHANGED <<run_vars, index, data, one_body_sum, a_ij, n_cc, hamiltonian,
                   min_vars, raised, error, out_vars, steps, in_flight>>

\* lines 190-193 and the assignment of line 104
BuildFinish ==
    /\ pc = "build_end"
    /\ hamiltonian' = simplify(qubit_hamiltonian(one_body_sum, two_body_sum))
    /\ Advance("build")
    /\ UNCHANGED <<run_vars, data, build_vars, min_vars, raised, error, out_vars, in_flight>>

\* lines 106 and 225: the minimizer is entered with starting_params
MinimizeStart ==
    /\ pc = "minimize"
    /\ params' = starting_params
    /\ evals' = 0
    /\ cost' = Unset
    /\ best' = Unset
    /\ pc' = "cost"
    /\ UNCHANGED <<run_vars, index, data, build_vars, hamiltonian, raised, error, out_vars, steps, in_flight>>

\* line 221: the cost function asks for the estimates and blocks
CostCall ==
    /\ pc = "cost"
    /\ pc' = "estimating"
    /\ in_flight' = in_flight + 1
    /\ UNCHANGED <<run_vars, index, data, build_vars, hamiltonian, min_vars, raised, error,
                   out_vars, steps>>

\* lines 221-223: the estimates arrive, or the capability raises and the
\* exception leaves cost_function, the minimizer and the driver
CostReturn ==
    /\ pc = "estimating"
    /\ \E fails \in BOOLEAN :
         LET estimate == estimate_expectation_values(
                             hamiltonian, bind_parameters(state_circuit, params), fails)
             result == cost_function(hamiltonian, estimate)
         IN /\ raised' = (raised \/ estimate.raised)
            /\ evals' = evals + 1
            /\ in_flight' = in_flight - 1
            /\ IF result.raised
               THEN /\ pc' = "failed"
                    /\ error' = result.kind
                    /\ UNCHANGED <<cost, best>>
               ELSE /\ pc' = "minimizer"
                    /\ cost' = result.value
                    /\ best' = IF evals = 0 \/ Re(result.value) < Re(best.fun)
                               THEN [x |-> params, fun |-> result.value]
                               ELSE best
                    /\ UNCHANGED error
    /\ UNCHANGED <<run_vars, index, data, build_vars, hamiltonian, params, out_vars, steps>>

\* the minimizer (scipy, COBYLA) tries another parameter vector
MinimizerProbe ==
    /\ pc = "minimizer"
    /\ evals < MaxEvals
    /\ \E theta \in ParamValues : params' = <<theta>>
    /\ pc' = "cost"
    /\ UNCHANGED <<run_vars, index, data, build_vars, hamiltonian, evals, cost, best,
                   raised, error, out_vars, steps, in_flight>>

\* lines 106-109: the minimizer returns its best evaluation and the driver
\* stores the results of the file
MinimizeReturn ==
    /\ pc = "minimizer"
    /\ distances' = [distances EXCEPT ![index + 1] = Stored(data.distance)]
    /\ repulsions' = [repulsions EXCEPT ![index + 1] = Stored(data.repulsion_energy)]
    /\ optimized_results' = [optimized_results EXCEPT ![index + 1] = Stored(best)]
    /\ Advance("minimize")
    /\ UNCHANGED <<run_vars, data, build_vars, hamiltonian, min_vars, raised, error,
                   minimal_exact_eigenvalues, in_flight>>

\* line 111
ExactSolve ==
    /\ pc = "exact"
    /\ minimal_exact_eigenvalues' =
          [minimal_exact_eigenvalues EXCEPT
              ![index + 1] = Stored(exact_minimal_eigenvalue(hamiltonian, num_orbitals))]
    /\ Advance("exact")
    /\ UNCHANGED <<run_vars, data, build_vars, hamiltonian, min_vars, raised, error,
                   distances, repulsions, optimized_results, in_flight>>

\* line 113
Return ==
    /\ pc = "loop"
    /\ index = Len(data_file_Paths)
    /\ pc' = "done"
    /\ UNCHANGED <<run_vars, index, data, build_vars, hamiltonian, min_vars, raised, error,
                   out_vars, steps, in_flight>>

Next ==
    \/ CreateCircuit
    \/ JordanWigner
    \/ Enter
    \/ ProcessFile
    \/ BuildOuter
    \/ BuildInner
    \/ BuildFinish
    \/ MinimizeStart
    \/ CostCall
    \/ CostReturn
    \/ MinimizerProbe
    \/ MinimizeReturn
    \/ ExactSolve
    \/ Return

Spec == Init /\ [][Next]_vars

\* ------------------------------------------------------------------ claims
\* line 62 has not run (or never will: line 60 raised)
BeforeJordanWigner == pc \in {"create_circuit", "jordan_wigner"} \/ error = "CircuitError"
\* lines 95-99 have not run
BeforeEnter == BeforeJordanWigner \/ pc = "enter"

IdentityOperator == <<Term({}, {}, COne)>>
\* what simplify returns for an operator all of whose terms cancel
ZeroOperator == <<Term({}, {}, CZero)>>

\* {a_r, a_s^dagger}: simplify(compose(a_r, a_s^dagger) + compose(a_s^dagger, a_r))
Anticommutator(r, s) ==
    simplify(Add(compose(annihilators[r], creators[s]),
                 compose(creators[s], annihilators[r])))

\* C1 (as amended): for all orbitals i, j the simplified sum
\* compose(a_i, a_j^dagger) + compose(a_j^dagger, a_i) is the identity operator
\* (one all-identity term, coefficient 1) when i = j and the zero operator when
\* i # j, which simplify returns as one all-identity term with coefficient 0.
\* Stated of the operators as they stand at the head of every iteration.
C1_Anticommutation ==
    pc = "loop" =>
    \A r \in 1..num_orbitals : \A s \in 1..num_orbitals :
        Anticommutator(r, s) = IF r = s THEN IdentityOperator ELSE ZeroOperator

\* C1 as stated: ... and an operator with no remaining terms when i # j.
C1_AsStated ==
    pc = "loop" =>
    \A r \in 1..num_orbitals : \A s \in 1..num_orbitals :
        Anticommutator(r, s) = IF r = s THEN IdentityOperator ELSE <<>>

C1_Witness ==
    /\ pc = "loop"
    /\ num_orbitals = MaxOrbitals
    /\ num_orbitals >= 2
    /\ Anticommutator(1, 1) = IdentityOperator
    /\ Anticommutator(num_orbitals, num_orbitals) = IdentityOperator
    /\ Anticommutator(1, num_orbitals) = ZeroOperator
    /\ Anticommutator(num_orbitals, 1) = ZeroOperator

\* C2: annihilation_operators_with_jordan_wigner(n) returns n operators in
\* orbital order; operator i has two terms: Z-flags exactly on qubits [0, i) and
\* the X-flag exactly on qubit i with coefficient 0.5, then Z-flags exactly on
\* qubits [0, i] and the X-flag exactly on qubit i with coefficient 0.5i.
C2_JordanWignerTerms ==
    ~BeforeJordanWigner =>
    /\ Len(annihilators) = num_orbitals
    /\ \A r \in 1..num_orbitals :
          annihilators[r] = <<[z |-> 0..(r - 2), x |-> {r - 1}, c |-> <<Unit \div 2, 0>>],
                              [z |-> 0..(r - 1), x |-> {r - 1}, c |-> <<0, Unit \div 2>>]>>

C2_Witness ==
    /\ entry = "get_dissociation_curve_parameters"
    /\ pc = "enter"
    /\ num_orbitals = h2_orbitals
    /\ Len(annihilators) = h2_orbitals
    /\ annihilators[h2_orbitals][1].z = 0..(h2_orbitals - 2)
    /\ annihilators[h2_orbitals][2].z = 0..(h2_orbitals - 1)
    /\ annihilators[h2_orbitals][2].x = {h2_orbitals - 1}

\* the sum the claim C3 writes, pattern by pattern: each pair and each quadruple
\* once, the two-body part halved once
CScale(t, c) == <<t * c[1], t * c[2]>>
CHalve(c) == <<c[1] \div 2, c[2] \div 2>>
AllPatterns == (SUBSET Orbitals(num_orbitals)) \X (SUBSET Orbitals(num_orbitals))
PairProduct(q) ==
    compose(creators[(q \div num_orbitals) + 1], annihilators[(q % num_orbitals) + 1])
QuadProduct(q) ==
    LET num == num_orbitals
    IN compose(compose(creators[(q \div (num * num * num)) + 1],
                       creators[((q \div (num * num)) % num) + 1]),
               compose(annihilators[((q \div num) % num) + 1],
                       annihilators[(q % num) + 1]))
OneBodyEntry(q) == data.one_body[q \div num_orbitals][q % num_orbitals]
TwoBodyEntry(q) ==
    LET num == num_orbitals
    IN data.two_body[q \div (num * num * num)][(q \div (num * num)) % num][(q \div num) % num][q % num]
ScaleTerms(t, A) == [m \in 1..Len(A) |-> Term(A[m].z, A[m].x, CScale(t, A[m].c))]
\* the terms one_body[i,j] * compose(creators[i], annihilators[j]) of all pairs
OneBodyTerms ==
    Accumulate([q \in 0..(num_orbitals * num_orbitals - 1) |->
                   IF OneBodyEntry(q) = 0 THEN <<>>
                   ELSE ScaleTerms(OneBodyEntry(q), PairProduct(q))],
               0, num_orbitals * num_orbitals - 1)
\* the terms two_body[i,j,k,l] * (product of the quadruple) of all quadruples
TwoBodyTerms ==
    LET last == num_orbitals * num_orbitals * num_orbitals * num_orbitals - 1
    IN Accumulate([q \in 0..last |->
                      IF TwoBodyEntry(q) = 0 THEN <<>>
                      ELSE ScaleTerms(TwoBodyEntry(q), QuadProduct(q))],
                  0, last)
OneBodyPart(p) == CoeffOf(OneBodyTerms, p)
TwoBodyPart(p) == CoeffOf(TwoBodyTerms, p)
NoRepeatedPattern(A) ==
    \A a \in 1..Len(A) : \A b \in 1..Len(A) : Pattern(A[a]) = Pattern(A[b]) => a = b
JustBuilt == pc = "minimize"

\* C3: build_qubit_hamiltonian returns the simplified sum of one_body[i,j] *
\* compose(creators[i], annihilators[j]) over all pairs plus 0.5 times the sum of
\* two_body[i,j,k,l] * compose(compose(creators[i], creators[j]),
\* compose(annihilators[k], annihilators[l])) over all quadruples: every pattern
\* carries exactly that coefficient, and no two terms share a pattern.
C3_HamiltonianIsTheSum ==
    JustBuilt =>
        /\ LET one_body_terms == OneBodyTerms
               two_body_terms == TwoBodyTerms
           IN \A p \in AllPatterns :
                 CoeffOf(hamiltonian, p) =
                    CAdd(CoeffOf(one_body_terms, p), CHalve(CoeffOf(two_body_terms, p)))
        /\ NoRepeatedPattern(hamiltonian)
        /\ hamiltonian # <<>>
        /\ \A m \in 1..Len(hamiltonian) : hamiltonian[m].c = CZero => hamiltonian = ZeroOperator

C3_Witness ==
    /\ JustBuilt
    /\ num_orbitals = MaxOrbitals
    /\ \E p \in AllPatterns : OneBodyPart(p) # CZero /\ TwoBodyPart(p) # CZero
    /\ Len(hamiltonian) > 1

Symmetric(M) == \A r \in DOMAIN M : \A c \in DOMAIN M : M[r][c] = M[c][r]
ZeroTwoBody ==
    \A q \in 0..(num_orbitals * num_orbitals * num_orbitals * num_orbitals - 1) :
        TwoBodyEntry(q) = 0

\* C4: for a symmetric real one_body tensor and an all-zero two_body tensor the
\* Hamiltonian returned by build_qubit_hamiltonian is Hermitian: every term that
\* remains after simplification has a real coefficient, so the adjoint has the
\* same coefficient on every pattern.
C4_SymmetricGivesHermitian ==
    (JustBuilt /\ Symmetric(data.one_body) /\ ZeroTwoBody) =>
        /\ \A m \in 1..Len(hamiltonian) : Im(hamiltonian[m].c) = 0
        /\ \A p \in AllPatterns : CoeffOf(adjoint(hamiltonian), p) = CoeffOf(hamiltonian, p)

C4_Witness ==
    /\ JustBuilt
    /\ num_orbitals = MaxOrbitals
    /\ Symmetric(data.one_body)
    /\ ZeroTwoBody
    /\ \E r \in Orbitals(num_orbitals) : \E c \in Orbitals(num_orbitals) :
          r # c /\ data.one_body[r][c] # 0
    /\ Len(hamiltonian) > 1

\* C5 as stated: the value the cost function hands to the minimizer is a real
\* scalar, the imaginary part of the sum of coefficient * estimate discarded.
C5_CostIsReal == pc = "minimizer" => Im(cost) = 0

\* C6: once the estimation capability has raised, the call has ended in the
\* failure ExecutionError, no OptimizeResult has been stored for the file, and
\* no further cost evaluation or result follows.
C6_EstimationErrorPropagates ==
    /\ [](raised => /\ pc = "failed"
                    /\ error = "ExecutionError"
                    /\ optimized_results[index + 1] = Empty)
    /\ [][raised => (evals' = evals /\ optimized_results' = optimized_results)]_vars

C6_Witness ==
    /\ raised
    /\ pc = "failed"
    /\ error = "ExecutionError"
    /\ evals = MaxEvals
    /\ index >= 1

IsPrefix(a, b) == Len(a) <= Len(b) /\ \A m \in 1..Len(a) : a[m] = b[m]
AllStored(m) ==
    /\ distances[m] # Empty /\ repulsions[m] # Empty
    /\ optimized_results[m] # Empty /\ minimal_exact_eigenvalues[m] # Empty
NoneStored(m) ==
    /\ distances[m] = Empty /\ repulsions[m] = Empty
    /\ optimized_results[m] = Empty /\ minimal_exact_eigenvalues[m] = Empty

\* C7 (as amended): for every file the steps occur in the order Hamiltonian
\* build, variational optimization, exact solve; all three steps of file k are
\* complete before any step of file k+1 begins; and at most one cost evaluation
\* is under way at any time.
C7_BuildMinimizeExact ==
    /\ IsPrefix(steps, <<"build", "minimize", "exact">>)
    /\ (pc = "loop" /\ index > 0) => steps = <<"build", "minimize", "exact">>
    /\ ~BeforeEnter =>
          \A m \in 1..Len(data_file_Paths) :
             /\ m <= index => AllStored(m)
             /\ m > index + 1 => NoneStored(m)
    /\ in_flight = (IF pc = "estimating" THEN 1 ELSE 0)

\* C7 as stated: ... in the order Hamiltonian build, exact solve, variational
\* optimization.
C7_AsStated == IsPrefix(steps, <<"build", "exact", "minimize">>)

C7_Witness ==
    /\ pc = "done"
    /\ Len(data_file_Paths) >= 2
    /\ index = Len(data_file_Paths)
    /\ steps = <<"build", "minimize", "exact">>
    /\ \A m \in 1..Len(data_file_Paths) : AllStored(m)
    /\ optimized_results[1][1].x # starting_params

\* what the run holds for a file depends on the file alone
HamiltonianOf(file) ==
    LET d == extract_data(file, num_orbitals)
        ann == annihilation_operators_with_jordan_wigner(num_orbitals)
    IN build_qubit_hamiltonian(d.one_body, d.two_body, ann,
                               [r \in 1..num_orbitals |-> adjoint(ann[r])])

\* the value the cost function gives the Hamiltonian of a file at parameters x
CostOf(file, x) ==
    LET observable == HamiltonianOf(file)
    IN cost_function(observable,
                     estimate_expectation_values(observable,
                                                 bind_parameters(state_circuit, x), FALSE)).value
\* an optimization result that belongs to the file: parameters the minimizer
\* tried, with the cost of the file's own Hamiltonian at them
ResultOf(file, result) ==
    /\ result.x \in {<<theta>> : theta \in ParamValues}
    /\ result.fun = CostOf(file, result.x)

\* C8: nothing crosses the iterations of calculate_hamiltonian_energy: the
\* Hamiltonian built for a file, the exact eigenvalue stored for it and the
\* starting parameters of its minimization are those the file alone determines,
\* whatever files came before it; the annihilator and creator lists are never
\* modified; and entry k of each of the four returned arrays (distances,
\* optimization results, exact eigenvalues, repulsion energies) refers to file k.
C8_NoStateAcrossFiles ==
    /\ ~BeforeJordanWigner =>
          annihilators = annihilation_operators_with_jordan_wigner(num_orbitals)
    /\ ~BeforeEnter => creators = [r \in 1..num_orbitals |-> adjoint(annihilators[r])]
    /\ pc = "minimize" => hamiltonian = HamiltonianOf(data_file_Paths[index + 1])
    /\ (pc = "cost" /\ evals = 0) => params = <<0>>
    /\ pc \in {"loop", "done"} =>
          \A m \in 1..index :
             /\ distances[m] = Stored(data_file_Paths[m].distance)
             /\ repulsions[m] = Stored(data_file_Paths[m].repulsion_energy)
             /\ optimized_results[m] # Empty
             /\ ResultOf(data_file_Paths[m], optimized_results[m][1])
             /\ minimal_exact_eigenvalues[m] =
                   Stored(exact_minimal_eigenvalue(HamiltonianOf(data_file_Paths[m]),
                                                   num_orbitals))

C8_Witness ==
    /\ pc = "done"
    /\ num_orbitals = MaxOrbitals
    /\ Len(data_file_Paths) >= 2
    /\ data_file_Paths[1] # data_file_Paths[Len(data_file_Paths)]
    /\ data_file_Paths[1].one_body # {}
    /\ ResultOf(data_file_Paths[1], optimized_results[1][1])
    /\ ~ResultOf(data_file_Paths[Len(data_file_Paths)], optimized_results[1][1])
    /\ ResultOf(data_file_Paths[Len(data_file_Paths)],
                optimized_results[Len(data_file_Paths)][1])
    /\ minimal_exact_eigenvalues[Len(data_file_Paths)] =
          Stored(exact_minimal_eigenvalue(HamiltonianOf(data_file_Paths[Len(data_file_Paths)]),
                                          num_orbitals))

SingleOrbitalFile(file) == file.one_body = {<<0, 0, -1>>} /\ file.two_body = {}

\* C9: for one orbital, one_body = [[-1.0]] and two_body zero, the Hamiltonian's
\* matrix has the eigenvalues -1 and 0 and exact_minimal_eigenvalue returns -1.0.
C9_SingleOrbitalMinimum ==
    ~BeforeEnter =>
    \A m \in 1..Len(data_file_Paths) :
        (num_orbitals = 1 /\ SingleOrbitalFile(data_file_Paths[m])) =>
            /\ (pc = "exact" /\ index + 1 = m) =>
                  LET M == to_matrix(hamiltonian, 1)
                  IN /\ {M[0][0], M[1][1]} = {<<-Unit, 0>>, CZero}
                     /\ M[0][1] = CZero /\ M[1][0] = CZero
            /\ minimal_exact_eigenvalues[m] # Empty =>
                  minimal_exact_eigenvalues[m] = Stored([min |-> -Unit])

C9_Witness ==
    /\ pc = "done"
    /\ num_orbitals = 1
    /\ SingleOrbitalFile(data_file_Paths[1])
    /\ minimal_exact_eigenvalues[1] = Stored([min |-> -Unit])

\* C10 as stated: in one build each creator-creator product and each
\* annihilator-annihilator product is computed once per pair, n^2 of each kind.
C10_PairProductsComputedOnce ==
    pc = "build_end" =>
        /\ n_cc = num_orbitals * num_orbitals
        /\ n_aa = num_orbitals * num_orbitals
====
